---------------------------- MODULE Spec2Model ----------------------------
(***************************************************************************)
(* Model of the Compliance & Licensing Hub: the RiskAssessmentFormModal    *)
(* component (its form state and handlers), the LicensingView state it     *)
(* reads and writes (the list of risk assessments, the assessment being    *)
(* edited, the modal flag, the notification), the details modal and the    *)
(* Delete buttons of the risk assessments, the license repository (list,   *)
(* search, status filter, pagination, add, edit, document upload, delete), *)
(* the lists of policies and regulatory updates, and the AI compliance     *)
(* checker with its calls in flight.                                       *)
(*                                                                         *)
(* JavaScript objects are shared by reference.  RiskItem objects are       *)
(* created in exactly one place (handleAddRiskItem), are never copied, and *)
(* are mutated in place by handleRiskItemChange and                        *)
(* handleMitigationControlsChange; they live in `heap`, keyed by the       *)
(* number generateId gave them, and every identifiedRisks array is a       *)
(* sequence of such keys.  Arrays and RiskAssessment objects are never     *)
(* mutated in place (the code always builds new ones with spread, map or   *)
(* filter), so they are modelled as values.                                *)
(*                                                                         *)
(* License objects are never mutated either; the allLicenses array is a    *)
(* sequence of the numbers generateId gave its licenses.  The objects made *)
(* at module load are computed from their number (mockLicense), the        *)
(* objects handleAddEditLicense puts in the array live in `licenseHeap`.   *)
(***************************************************************************)
EXTENDS Naturals, Sequences, FiniteSets, TLC

VARIABLES
    nextId,                      \* module-level counter behind generateId
    heap,                        \* RiskItem objects, by the number in their id
    allRiskAssessments,          \* LicensingView state
    editingRiskAssessment,       \* LicensingView state (Null or an assessment)
    isRiskAssessmentModalOpen,   \* LicensingView state
    notification,                \* LicensingView state: type of the toast
    formState,                   \* RiskAssessmentFormModal state
    viewingRiskAssessment,       \* LicensingView state (Null or an assessment)
    isViewRiskAssessmentModalOpen,  \* LicensingView state
    licenseHeap,                 \* License objects of the session, by the number in their id
    allLicenses,                 \* LicensingView state
    isLicenseModalOpen,          \* LicensingView state
    licenseSearchTerm,           \* LicensingView state
    licenseFilterStatus,         \* LicensingView state
    currentPageLicenses,         \* LicensingView state
    editingLicense,              \* LicensingView state (Null or a license)
    licenseFormState,            \* LicenseFormModal state (formState)
    allPolicies,                 \* LicensingView state
    allRegulatoryUpdates,        \* LicensingView state
    isLoading,                   \* LicensingView state
    isCheckerOpen,               \* LicensingView state
    featureDesc,                 \* LicensingView state
    complianceReport,            \* LicensingView state
    allComplianceChecks,         \* LicensingView state
    aiCalls                      \* handleCheckCompliance calls waiting at their await

\* the details modal of a risk assessment
viewVars == <<viewingRiskAssessment, isViewRiskAssessmentModalOpen>>

\* the license repository: the list, its form modal, its filters, its page
licenseVars == <<licenseHeap, allLicenses, isLicenseModalOpen, licenseSearchTerm,
                 licenseFilterStatus, currentPageLicenses, editingLicense,
                 licenseFormState>>

\* the license form
licenseFormVars == <<editingLicense, licenseFormState>>

\* the lists of policies and of regulatory updates
policyVars == <<allPolicies, allRegulatoryUpdates>>

\* the AI compliance checker, but for isLoading
checkVars == <<isCheckerOpen, featureDesc, complianceReport, allComplianceChecks, aiCalls>>

\* the state no handler of RiskAssessmentFormModal reads or writes
pageVars == <<viewVars, licenseVars, policyVars, checkVars>>

\* the state of the risk-assessment form and of the list behind it
formVars == <<heap, allRiskAssessments, editingRiskAssessment,
              isRiskAssessmentModalOpen, formState>>

vars == <<nextId, heap, allRiskAssessments, editingRiskAssessment,
          isRiskAssessmentModalOpen, notification, formState, isLoading, pageVars>>

----------------------------------------------------------------------------
(* Bounds of the model *)

\* number of RiskItem objects one session creates
MaxItems == 1
\* number of risk assessments one session stores
MaxAssessments == 2
\* number of risk items of a form that is about to be submitted
SubmitItems == 3
\* number of RiskItem objects in a session with two handlers per render
BatchItems == 2
\* number of RiskItem objects in a session that watches the order of the items
OrderItems == 3
\* number of licenses one session deletes, and number it adds (in a session
\* that uploads documents: number of licenses and documents it adds)
MaxDeletes == 1
MaxAdds == 1
\* number of licenses of mockLicenses one session changes
MaxEdits == 1

----------------------------------------------------------------------------
(* Program constants *)

InitialNextId == 1000
MockLicenses == 50
MockPolicies == 30
MockRegulatoryUpdates == 40

\* every createMock* call at module load takes one id
FirstFreeId == InitialNextId + MockLicenses + MockPolicies + MockRegulatoryUpdates

Null == [null |-> TRUE]

\* the options of the likelihood and impact <select> elements
Ordinals == {"Low", "Medium", "High"}
\* RiskItem['inherentRisk'], RiskItem['residualRisk'], overallRiskRating
RiskLevels == {"Low", "Medium", "High", "Critical"}

\* strings that are not an option of the selects: an unknown word, and ''
OutOfDomain == {"Extreme", ""}

\* texts typed in the description input and in the scope input
Descriptions == {"", "d"}
Scopes == {"", "s"}

\* useState(10)
licensesPerPage == 10

\* the options of the status filter of the license repository
LicenseFilters == {"All", "Active", "Pending Renewal", "Expired", "Revoked", "Suspended"}

\* texts typed in the search boxes: nothing, the start of some license
\* names, a text no license contains
SearchTerms == {"", "license 1", "zzz"}

\* texts typed in the mitigation-controls input, as value.split(',') sees
\* them: the parts between the commas
MitigationInputs == { <<"">>, <<" ", "">>, <<" a", " ", "b ">> }

----------------------------------------------------------------------------
(* The scoring computation of handleRiskItemChange *)

\* a lookup that counts the ordinals from 0
likelihoodOrder_FromZero(l) ==
    LET key == IF l = "" THEN "Low" ELSE l
    IN  CASE key = "Low" -> 0
          [] key = "Medium" -> 1
          [] key = "High" -> 2
          [] OTHER -> 0

\* a lookup that takes an unknown key for the lowest rank
likelihoodOrder_UnknownAsLow(l) ==
    LET key == IF l = "" THEN "Low" ELSE l
    IN  CASE key = "Medium" -> 2
          [] key = "High" -> 3
          [] OTHER -> 1

\* likelihoodOrder[(risk.likelihood || 'Low')] || 0
likelihoodOrder(l) ==
    LET key == IF l = "" THEN "Low" ELSE l
    IN  CASE key = "Low" -> 1
          [] key = "Medium" -> 2
          [] key = "High" -> 3
          [] OTHER -> 0

\* impactOrder[(risk.impact || 'Low')] || 0
impactOrder(i) ==
    LET key == IF i = "" THEN "Low" ELSE i
    IN  CASE key = "Low" -> 1
          [] key = "Medium" -> 2
          [] key = "High" -> 3
          [] OTHER -> 0

inherentScore(risk) == likelihoodOrder(risk.likelihood) * impactOrder(risk.impact)

\* the thresholds compared with > instead of >=
inherentRiskOf_Exclusive(score) ==
    IF score > 6 THEN "Critical"
    ELSE IF score > 4 THEN "High"
    ELSE IF score > 2 THEN "Medium"
    ELSE "Low"

\* thresholds whose buckets are not in the order of the score
inherentRiskOf_Dip(score) ==
    IF score >= 6 THEN "Critical"
    ELSE IF score >= 4 THEN "High"
    ELSE IF score >= 3 THEN "Low"
    ELSE IF score >= 2 THEN "Medium"
    ELSE "Low"

\* line 900
inherentRiskOf(score) ==
    IF score >= 6 THEN "Critical"
    ELSE IF score >= 4 THEN "High"
    ELSE IF score >= 2 THEN "Medium"
    ELSE "Low"

\* a demotion that takes Critical down to Medium
residualRiskOf_TwoLevels(risk) ==
    IF Len(risk.mitigationControls) > 0 /\ risk.inherentRisk # "Low"
    THEN (IF risk.inherentRisk = "Critical" THEN "Medium"
          ELSE IF risk.inherentRisk = "High" THEN "Medium"
          ELSE "Low")
    ELSE risk.inherentRisk

\* a demotion that does not look at the controls
residualRiskOf_Unconditional(risk) ==
    IF risk.inherentRisk # "Low"
    THEN (IF risk.inherentRisk = "Critical" THEN "High"
          ELSE IF risk.inherentRisk = "High" THEN "Medium"
          ELSE "Low")
    ELSE risk.inherentRisk

\* a demotion that takes every mitigated item down to Low
residualRiskOf_ToLow(risk) ==
    IF Len(risk.mitigationControls) > 0 /\ risk.inherentRisk # "Low"
    THEN "Low"
    ELSE risk.inherentRisk

\* line 902
residualRiskOf(risk) ==
    IF Len(risk.mitigationControls) > 0 /\ risk.inherentRisk # "Low"
    THEN (IF risk.inherentRisk = "Critical" THEN "High"
          ELSE IF risk.inherentRisk = "High" THEN "Medium"
          ELSE "Low")
    ELSE risk.inherentRisk

\* a recalculation that derives residualRisk from the inherentRisk the item
\* had before
Recalculate_FromOldInherent(risk) ==
    [risk EXCEPT !.inherentRisk = inherentRiskOf(inherentScore(risk)),
                 !.residualRisk = residualRiskOf(risk)]

\* lines 894-903: the recalculation, on the item whose field was just written
Recalculate(risk) ==
    LET scored == [risk EXCEPT !.inherentRisk = inherentRiskOf(inherentScore(risk))]
    IN  [scored EXCEPT !.residualRisk = residualRiskOf(scored)]

\* (risk as any)[field] = value, then the recalculation when the field is
\* likelihood or impact.  field is a keyof RiskItem; the fields here are
\* those a string can be written into without changing the field's type
\* (id and mitigationControls are left out).
ChangedRisk(risk, field, value) ==
    LET written == CASE field = "description" -> [risk EXCEPT !.description = value]
                     [] field = "likelihood" -> [risk EXCEPT !.likelihood = value]
                     [] field = "impact" -> [risk EXCEPT !.impact = value]
                     [] field = "inherentRisk" -> [risk EXCEPT !.inherentRisk = value]
                     [] field = "residualRisk" -> [risk EXCEPT !.residualRisk = value]
    IN  IF field \in {"likelihood", "impact"} THEN Recalculate(written) ELSE written

----------------------------------------------------------------------------
(* value.split(',').map(s => s.trim()).filter(Boolean) *)

trim(s) ==
    CASE s = " " -> ""
      [] s = " a" -> "a"
      [] s = "b " -> "b"
      [] OTHER -> s

RECURSIVE FilterBoolean(_)
FilterBoolean(parts) ==
    IF parts = <<>> THEN <<>>
    ELSE IF Head(parts) # "" THEN <<Head(parts)>> \o FilterBoolean(Tail(parts))
    ELSE FilterBoolean(Tail(parts))

ParseControls(parts) == FilterBoolean([k \in 1..Len(parts) |-> trim(parts[k])])

----------------------------------------------------------------------------
(* The overall rating of handleSubmit *)

riskOrder(r) ==
    CASE r = "Low" -> 1
      [] r = "Medium" -> 2
      [] r = "High" -> 3
      [] r = "Critical" -> 4

\* a callback that compares the wrong way round
maxRiskStep_Least(max, risk) ==
    IF riskOrder(risk.residualRisk) < riskOrder(max) THEN risk.residualRisk ELSE max

\* a callback that keeps the item it is at
maxRiskStep_Latest(max, risk) == risk.residualRisk

\* one step of the reduce callback
maxRiskStep(max, risk) ==
    IF riskOrder(risk.residualRisk) > riskOrder(max) THEN risk.residualRisk ELSE max

\* identifiedRisks.reduce(callback, 'Low'): a left fold over the items
RECURSIVE maxRiskFrom(_, _, _)
maxRiskFrom(risks, h, max) ==
    IF risks = <<>> THEN max
    ELSE maxRiskFrom(Tail(risks), h, maxRiskStep(max, h[Head(risks)]))

maxRisk(risks, h) == maxRiskFrom(risks, h, "Low")

----------------------------------------------------------------------------
(* Objects *)

\* an object literal whose inherentRisk is not the one of its likelihood
\* and impact
NewRiskItem_MediumInherent(id) ==
    [id |-> id, description |-> "", likelihood |-> "Low", impact |-> "Low",
     inherentRisk |-> "Medium", mitigationControls |-> <<>>, residualRisk |-> "Medium"]

\* the object literal of handleAddRiskItem
NewRiskItem(id) ==
    [id |-> id, description |-> "", likelihood |-> "Low", impact |-> "Low",
     inherentRisk |-> "Low", mitigationControls |-> <<>>, residualRisk |-> "Low"]

\* element i of Array.from({ length: 50 }, (_, i) => createMockLicense(...)):
\* the i-th call of generateId, the name `License ${i + 1} - <jurisdiction>`
\* (two names differ in the number already), the status by i % 5 and i % 7.
\* The fields no handler here reads are left out (issueDate and expiryDate
\* are never empty).  jurisdictionId is one of the seven ids, drawn with
\* Math.random(); the code only tests it for being empty, "JUR" is any of
\* the seven.
mockLicense(i) ==
    [id |-> <<"LIC", InitialNextId + i>>,
     name |-> <<"License", i + 1>>,
     status |-> IF i % 5 = 0 THEN "Expired"
                ELSE IF i % 7 = 0 THEN "Pending Renewal"
                ELSE "Active",
     jurisdictionId |-> "JUR",
     documents |-> << >>]

\* the array mockLicenses, as the numbers of its licenses
mockLicenses == [k \in 1..MockLicenses |-> InitialNextId + k - 1]

\* what the license form hands to onSubmit for a new license: id '', a name
\* the user typed, a status of the select
NewLicenses ==
    { [id |-> <<>>, name |-> <<"New", 1>>, status |-> status,
       jurisdictionId |-> "JUR", documents |-> << >>] :
        status \in {"Active", "Expired"} }

\* the name input left empty
EmptyName == <<"", 0>>

\* what the useEffect of the license form sets when there is no license to
\* edit: createMockLicense with id '', name '', jurisdictionId '', status
\* 'Active', documents []
BlankLicense ==
    [id |-> <<>>, name |-> EmptyName, status |-> "Active",
     jurisdictionId |-> "", documents |-> << >>]

\* names typed in the name input of the license form
LicenseNames == {EmptyName, <<"New", 1>>}

\* names typed in the Document Name input
DocumentNames == {"certificate"}

\* the rows of the license table whose Edit button a session uses
EditRows == {1}

\* the arrays mockCompliancePolicies and mockRegulatoryUpdates, as the
\* numbers of their records
mockCompliancePolicies ==
    [k \in 1..MockPolicies |-> InitialNextId + MockLicenses + k - 1]
mockRegulatoryUpdates ==
    [k \in 1..MockRegulatoryUpdates |-> InitialNextId + MockLicenses + MockPolicies + k - 1]

\* useState("A new feature to allow cross-border payments to Brazil.")
DefaultFeatureDesc == "A new feature to allow cross-border payments to Brazil."

\* texts typed in the feature description
FeatureDescs == {"", " ", "f"}

\* the blank form: id '' is the empty tuple, a stored assessment has the
\* id <<"RA", n>>.  assessmentDate, assessedBy, mitigationPlan, status and
\* reviewDate are carried along unread by every handler and are left out.
BlankAssessment ==
    [id |-> <<>>, scope |-> "", identifiedRisks |-> <<>>, overallRiskRating |-> "Low"]

----------------------------------------------------------------------------
\* the initial state of what is outside the risk-assessment form
InitPage ==
    /\ viewingRiskAssessment = Null
    /\ isViewRiskAssessmentModalOpen = FALSE
    /\ licenseHeap = << >>
    /\ allLicenses = mockLicenses
    /\ isLicenseModalOpen = FALSE
    /\ licenseSearchTerm = ""
    /\ licenseFilterStatus = "All"
    /\ currentPageLicenses = 1
    /\ editingLicense = Null
    /\ licenseFormState = BlankLicense
    /\ allPolicies = mockCompliancePolicies
    /\ allRegulatoryUpdates = mockRegulatoryUpdates
    /\ isLoading = FALSE
    /\ isCheckerOpen = FALSE
    /\ featureDesc = DefaultFeatureDesc
    /\ complianceReport = ""
    /\ allComplianceChecks = << >>
    /\ aiCalls = << >>

Init ==
    /\ nextId = FirstFreeId
    /\ heap = << >>
    /\ allRiskAssessments = << >>
    /\ editingRiskAssessment = Null
    /\ isRiskAssessmentModalOpen = FALSE
    /\ notification = "none"
    /\ formState = BlankAssessment
    /\ InitPage


----------------------------------------------------------------------------
(* RiskAssessmentFormModal: the handlers behind the form's controls.  The   *)
(* component renders nothing while isOpen is false, so every handler is     *)
(* guarded by the modal flag.                                               *)

\* handleRiskItemChange(index, field, value): the array is copied, the item
\* object in it is not, so the write and the recalculation land in the heap
handleRiskItemChange(index, field, value) ==
    /\ isRiskAssessmentModalOpen
    /\ UNCHANGED <<isLoading, pageVars>>
    /\ index \in 1..Len(formState.identifiedRisks)
    /\ LET id == formState.identifiedRisks[index]
       IN  heap' = [heap EXCEPT ![id] = ChangedRisk(heap[id], field, value)]
    /\ formState' = [formState EXCEPT !.identifiedRisks = formState.identifiedRisks]
    /\ UNCHANGED <<nextId, allRiskAssessments, editingRiskAssessment,
                   isRiskAssessmentModalOpen, notification>>

\* handleMitigationControlsChange(index, value): writes the parsed controls
\* into the item object and nothing else
handleMitigationControlsChange(index, parts) ==
    /\ isRiskAssessmentModalOpen
    /\ UNCHANGED <<isLoading, pageVars>>
    /\ index \in 1..Len(formState.identifiedRisks)
    /\ LET id == formState.identifiedRisks[index]
       IN  heap' = [heap EXCEPT ![id].mitigationControls = ParseControls(parts)]
    /\ formState' = [formState EXCEPT !.identifiedRisks = formState.identifiedRisks]
    /\ UNCHANGED <<nextId, allRiskAssessments, editingRiskAssessment,
                   isRiskAssessmentModalOpen, notification>>

\* a handler that puts the new item in front
handleAddRiskItem_Prepend ==
    /\ isRiskAssessmentModalOpen
    /\ UNCHANGED <<isLoading, pageVars>>
    /\ nextId' = nextId + 1
    /\ heap' = heap @@ (nextId :> NewRiskItem(nextId))
    /\ formState' = [formState EXCEPT
                        !.identifiedRisks = <<nextId>> \o formState.identifiedRisks]
    /\ UNCHANGED <<allRiskAssessments, editingRiskAssessment,
                   isRiskAssessmentModalOpen, notification>>

\* handleAddRiskItem: a new item object, appended to a new array
handleAddRiskItem ==
    /\ isRiskAssessmentModalOpen
    /\ UNCHANGED <<isLoading, pageVars>>
    /\ nextId' = nextId + 1
    /\ heap' = heap @@ (nextId :> NewRiskItem(nextId))
    /\ formState' = [formState EXCEPT
                        !.identifiedRisks = Append(formState.identifiedRisks, nextId)]
    /\ UNCHANGED <<allRiskAssessments, editingRiskAssessment,
                   isRiskAssessmentModalOpen, notification>>

\* handleRemoveRiskItem(id): the Remove button of the item at `index`
handleRemoveRiskItem(index) ==
    /\ isRiskAssessmentModalOpen
    /\ UNCHANGED <<isLoading, pageVars>>
    /\ index \in 1..Len(formState.identifiedRisks)
    /\ LET id == heap[formState.identifiedRisks[index]].id
       IN  formState' = [formState EXCEPT !.identifiedRisks =
                            SelectSeq(formState.identifiedRisks,
                                      LAMBDA item : heap[item].id # id)]
    /\ UNCHANGED <<nextId, heap, allRiskAssessments, editingRiskAssessment,
                   isRiskAssessmentModalOpen, notification>>

\* handleChange, for the scope input
handleChange(value) ==
    /\ isRiskAssessmentModalOpen
    /\ UNCHANGED <<isLoading, pageVars>>
    /\ formState' = [formState EXCEPT !.scope = value]
    /\ UNCHANGED <<nextId, heap, allRiskAssessments, editingRiskAssessment,
                   isRiskAssessmentModalOpen, notification>>

\* onClose: the Cancel button, the x button and a click on the backdrop
onClose ==
    /\ isRiskAssessmentModalOpen
    /\ UNCHANGED <<isLoading, pageVars>>
    /\ isRiskAssessmentModalOpen' = FALSE
    /\ UNCHANGED <<nextId, heap, allRiskAssessments, editingRiskAssessment,
                   notification, formState>>

----------------------------------------------------------------------------
(* LicensingView *)

\* the useEffect of the form on [assessment]: it runs when the prop is
\* another object than at the last render.  editingRiskAssessment is always
\* null or an element of allRiskAssessments (the list changes only in
\* handleAddEditRiskAssessment, which sets it to null), and the elements of
\* the list have different ids, so "another object" is "another value".
FormAfterEffect(assessment) ==
    IF assessment = editingRiskAssessment THEN formState
    ELSE IF assessment # Null THEN assessment
    ELSE BlankAssessment

\* handleAddEditRiskAssessment(assessmentData): what it does to the list
AddEditRiskAssessment(assessmentData) ==
    IF assessmentData.id # <<>>
    THEN [k \in 1..Len(allRiskAssessments) |->
             IF allRiskAssessments[k].id = assessmentData.id
             THEN assessmentData ELSE allRiskAssessments[k]]
    ELSE <<[assessmentData EXCEPT !.id = <<"RA", nextId>>]>> \o allRiskAssessments

\* a validation that asks for a scope only
SubmitRejected_ScopeOnly == formState.scope = ""

\* a validation that asks for risk items only, which the code does not have
SubmitRejected_ItemsOnly == Len(formState.identifiedRisks) = 0

\* the validation of handleSubmit: !formState.scope || length === 0
SubmitRejected == formState.scope = "" \/ Len(formState.identifiedRisks) = 0

\* handleSubmit, and the onSubmit callback it calls
\* (handleAddEditRiskAssessment, which has no await and runs to its end:
\* its setIsLoading(true) and setIsLoading(false) are one update).  The
\* submit button is disabled while isLoading.
handleSubmit ==
    /\ isRiskAssessmentModalOpen
    /\ ~isLoading
    /\ UNCHANGED pageVars
    /\ IF SubmitRejected
       THEN /\ notification' = "error"
            /\ UNCHANGED <<nextId, heap, allRiskAssessments, editingRiskAssessment,
                           isRiskAssessmentModalOpen, formState, isLoading>>
       ELSE LET assessmentData ==
                    [formState EXCEPT !.overallRiskRating =
                                          maxRisk(formState.identifiedRisks, heap)]
            IN  /\ allRiskAssessments' = AddEditRiskAssessment(assessmentData)
                /\ nextId' = IF assessmentData.id = <<>> THEN nextId + 1 ELSE nextId
                /\ notification' = "success"
                /\ isRiskAssessmentModalOpen' = FALSE
                /\ editingRiskAssessment' = Null
                /\ formState' = FormAfterEffect(Null)
                /\ isLoading' = FALSE
                /\ UNCHANGED heap

\* the buttons of the page are under the overlay of an open modal
NoModalOpen ==
    /\ ~isRiskAssessmentModalOpen
    /\ ~isViewRiskAssessmentModalOpen
    /\ ~isLicenseModalOpen
    /\ ~isCheckerOpen

openAddRiskAssessmentModal ==
    /\ NoModalOpen
    /\ UNCHANGED <<isLoading, pageVars>>
    /\ editingRiskAssessment' = Null
    /\ isRiskAssessmentModalOpen' = TRUE
    /\ formState' = FormAfterEffect(Null)
    /\ UNCHANGED <<nextId, heap, allRiskAssessments, notification>>

\* the Edit button of row k of the table
openEditRiskAssessmentModal(k) ==
    /\ NoModalOpen
    /\ UNCHANGED <<isLoading, pageVars>>
    /\ k \in 1..Len(allRiskAssessments)
    /\ editingRiskAssessment' = allRiskAssessments[k]
    /\ isRiskAssessmentModalOpen' = TRUE
    /\ formState' = FormAfterEffect(allRiskAssessments[k])
    /\ UNCHANGED <<nextId, heap, allRiskAssessments, notification>>

\* the x of the toast
closeNotification ==
    /\ notification # "none"
    /\ notification' = "none"
    /\ UNCHANGED <<nextId, formVars, isLoading, pageVars>>

----------------------------------------------------------------------------
(* Deleting.  LicensingView has one delete handler, handleDeleteLicense;   *)
(* the Delete button of a license row, the Delete button of a risk         *)
(* assessment row and the onDelete prop of RiskAssessmentDetailsModal all  *)
(* call it.  It has no await: isLoading is set and reset in one render.    *)

\* the License object with number n
LicenseAt(n) ==
    IF n \in DOMAIN licenseHeap THEN licenseHeap[n] ELSE mockLicense(n - InitialNextId)

\* prev.filter(lic => lic.id !== licenseId)
LicensesWithout(licenseId) ==
    SelectSeq(allLicenses, LAMBDA lic : LicenseAt(lic).id # licenseId)

handleDeleteLicense(licenseId) ==
    /\ allLicenses' = LicensesWithout(licenseId)
    /\ notification' = "success"
    /\ isLoading' = FALSE
    /\ UNCHANGED <<nextId, formVars, viewVars, licenseHeap, isLicenseModalOpen,
                   licenseSearchTerm, licenseFilterStatus, currentPageLicenses,
                   licenseFormVars, policyVars, checkVars>>

\* the Delete button of row k of the risk assessment table
deleteRiskAssessmentRow(k) ==
    /\ NoModalOpen
    /\ k \in 1..Len(allRiskAssessments)
    /\ handleDeleteLicense(allRiskAssessments[k].id)

\* the View button of row k of the risk assessment table
openViewRiskAssessmentModal(k) ==
    /\ NoModalOpen
    /\ k \in 1..Len(allRiskAssessments)
    /\ viewingRiskAssessment' = allRiskAssessments[k]
    /\ isViewRiskAssessmentModalOpen' = TRUE
    /\ UNCHANGED <<nextId, formVars, notification, isLoading, licenseVars,
                   policyVars, checkVars>>

\* RiskAssessmentDetailsModal renders nothing unless it is open and has an
\* assessment
DetailsShown == isViewRiskAssessmentModalOpen /\ viewingRiskAssessment # Null

\* onClose of the details modal
onCloseDetails ==
    /\ DetailsShown
    /\ isViewRiskAssessmentModalOpen' = FALSE
    /\ UNCHANGED <<nextId, formVars, notification, isLoading, viewingRiskAssessment,
                   licenseVars, policyVars, checkVars>>

\* handleDeleteClick of the details modal; `confirmed` is the answer to
\* window.confirm
handleDeleteClick(confirmed) ==
    /\ DetailsShown
    /\ IF confirmed
       THEN /\ allLicenses' = LicensesWithout(viewingRiskAssessment.id)
            /\ notification' = "success"
            /\ isLoading' = FALSE
            /\ isViewRiskAssessmentModalOpen' = FALSE
            /\ UNCHANGED <<nextId, formVars, viewingRiskAssessment, licenseHeap,
                           isLicenseModalOpen, licenseSearchTerm, licenseFilterStatus,
                           currentPageLicenses, licenseFormVars, policyVars, checkVars>>
       ELSE UNCHANGED vars

\* handleEditClick of the details modal: onEdit(assessment), onClose().
\* The assessment is the one of the list the modal was opened on: the list
\* does not change while the modal is open.
handleEditClick ==
    /\ DetailsShown
    /\ editingRiskAssessment' = viewingRiskAssessment
    /\ isRiskAssessmentModalOpen' = TRUE
    /\ formState' = FormAfterEffect(viewingRiskAssessment)
    /\ isViewRiskAssessmentModalOpen' = FALSE
    /\ UNCHANGED <<nextId, heap, allRiskAssessments, notification, isLoading,
                   viewingRiskAssessment, licenseVars, policyVars, checkVars>>

----------------------------------------------------------------------------
(* The license repository: filter, sort, paginate.  licenseSortBy and      *)
(* licenseSortOrder stay 'name' and 'asc': the sort controls are not part  *)
(* of the sessions below, nor are the Edit and View buttons of a license   *)
(* row (editingLicense, viewingLicense) and the fields of the license      *)
(* form: the form hands a new license to handleAddEditLicense.             *)

\* name.toLowerCase().includes(term.toLowerCase()), for the terms of
\* SearchTerms.  No jurisdiction and no licenseNumber ('L' and six digits)
\* contains 'license 1' or 'zzz', so the name decides.
Includes(name, term) ==
    CASE term = "" -> TRUE
      [] term = "license 1" ->
             name[1] = "License" /\ (name[2] = 1 \/ name[2] \in 10..19)
      [] OTHER -> FALSE

\* the place of a number below 100 among the decimal strings
DigitsKey(n) == IF n < 10 THEN 20 * n ELSE 20 * (n \div 10) + (n % 10) + 1

\* the place of a name among the names the licenses can have, in the order
\* of localeCompare: 'License <n> ...' before 'New <n>', the numbers as
\* decimal strings
NameKey(name) ==
    IF name[1] = "License" THEN DigitsKey(name[2]) ELSE 2000 + DigitsKey(name[2])

\* a.name.localeCompare(b.name) < 0, on licenses paired with the place of
\* their names
NameBefore(a, b) == a[1] < b[1]

\* filtered.sort(...) with licenseSortBy 'name' and licenseSortOrder 'asc';
\* licenses of the same name keep their order
sortByName(licenses) ==
    LET keyed == [k \in 1..Len(licenses) |->
                     <<NameKey(LicenseAt(licenses[k]).name), licenses[k]>>]
        sorted == SortSeq(keyed, NameBefore)
    IN  [k \in 1..Len(sorted) |-> sorted[k][2]]

filteredAndSortedLicenses ==
    LET found == SelectSeq(allLicenses,
                           LAMBDA lic : Includes(LicenseAt(lic).name, licenseSearchTerm))
        filtered == IF licenseFilterStatus # "All"
                    THEN SelectSeq(found,
                                   LAMBDA lic : LicenseAt(lic).status = licenseFilterStatus)
                    ELSE found
    IN  sortByName(filtered)

\* filteredAndSortedLicenses.slice(indexOfFirstLicense, indexOfLastLicense)
currentLicenses ==
    LET indexOfLastLicense == currentPageLicenses * licensesPerPage
        indexOfFirstLicense == indexOfLastLicense - licensesPerPage
        sorted == filteredAndSortedLicenses
        end == IF indexOfLastLicense < Len(sorted) THEN indexOfLastLicense ELSE Len(sorted)
    IN  SubSeq(sorted, indexOfFirstLicense + 1, end)

\* Math.ceil(filteredAndSortedLicenses.length / licensesPerPage)
totalPagesLicenses ==
    (Len(filteredAndSortedLicenses) + licensesPerPage - 1) \div licensesPerPage

\* the search box of the license repository, and the search box of the
\* risk assessments, which is bound to the same state
setLicenseSearchTerm(value) ==
    /\ NoModalOpen
    /\ licenseSearchTerm' = value
    /\ UNCHANGED <<nextId, formVars, notification, viewVars, licenseHeap, allLicenses,
                   isLicenseModalOpen, licenseFilterStatus, currentPageLicenses,
                   licenseFormVars, isLoading, policyVars, checkVars>>

setLicenseFilterStatus(value) ==
    /\ NoModalOpen
    /\ licenseFilterStatus' = value
    /\ UNCHANGED <<nextId, formVars, notification, viewVars, licenseHeap, allLicenses,
                   isLicenseModalOpen, licenseSearchTerm, currentPageLicenses,
                   licenseFormVars, isLoading, policyVars, checkVars>>

\* the pagination controls are rendered when there is more than one page
setCurrentPageLicenses(page) ==
    /\ NoModalOpen
    /\ totalPagesLicenses > 1
    /\ currentPageLicenses' = page
    /\ UNCHANGED <<nextId, formVars, notification, viewVars, licenseHeap, allLicenses,
                   isLicenseModalOpen, licenseSearchTerm, licenseFilterStatus,
                   licenseFormVars, isLoading, policyVars, checkVars>>

\* the Previous button, disabled on page 1
previousPage ==
    /\ currentPageLicenses # 1
    /\ setCurrentPageLicenses(IF currentPageLicenses - 1 > 1
                               THEN currentPageLicenses - 1 ELSE 1)

\* the button of page i
pageButton(i) ==
    /\ i \in 1..totalPagesLicenses
    /\ setCurrentPageLicenses(i)

\* the Next button, disabled on the last page
nextPage ==
    /\ currentPageLicenses # totalPagesLicenses
    /\ setCurrentPageLicenses(IF currentPageLicenses + 1 < totalPagesLicenses
                               THEN currentPageLicenses + 1 ELSE totalPagesLicenses)

\* the Delete button of row k of the page shown
deleteLicenseRow(k) ==
    /\ NoModalOpen
    /\ LET rows == currentLicenses
       IN  /\ k \in 1..Len(rows)
           /\ handleDeleteLicense(LicenseAt(rows[k]).id)

\* the useEffect of the license form on [license]; what FormAfterEffect is
\* to the risk-assessment form.  editingLicense is null or the object of a
\* row; an object of the list is replaced by handleAddEditLicense, which
\* sets editingLicense to null, or by handleUploadLicenseDocument, which
\* gives it a document it did not have: "another object" is "another
\* value".
LicenseFormAfterEffect(license) ==
    IF license = editingLicense THEN licenseFormState
    ELSE IF license # Null THEN license
    ELSE BlankLicense

openAddLicenseModal ==
    /\ NoModalOpen
    /\ editingLicense' = Null
    /\ isLicenseModalOpen' = TRUE
    /\ licenseFormState' = LicenseFormAfterEffect(Null)
    /\ UNCHANGED <<nextId, formVars, notification, viewVars, licenseHeap, allLicenses,
                   licenseSearchTerm, licenseFilterStatus, currentPageLicenses,
                   isLoading, policyVars, checkVars>>

\* openEditLicenseModal(license): setEditingLicense(license) and
\* setLicenseModalOpen(true), then the effect of the form
editLicense(license) ==
    /\ editingLicense' = license
    /\ licenseFormState' = LicenseFormAfterEffect(license)
    /\ isLicenseModalOpen' = TRUE
    /\ UNCHANGED <<nextId, formVars, notification, viewVars, licenseHeap, allLicenses,
                   licenseSearchTerm, licenseFilterStatus, currentPageLicenses,
                   isLoading, policyVars, checkVars>>

\* the Edit button of row k of the page shown
openEditLicenseModal(k) ==
    /\ NoModalOpen
    /\ LET rows == currentLicenses
       IN  /\ k \in 1..Len(rows)
           /\ editLicense(LicenseAt(rows[k]))

\* onClose of the license form
onCloseLicenseModal ==
    /\ isLicenseModalOpen
    /\ isLicenseModalOpen' = FALSE
    /\ UNCHANGED <<nextId, formVars, notification, viewVars, licenseHeap, allLicenses,
                   licenseSearchTerm, licenseFilterStatus, currentPageLicenses,
                   licenseFormVars, isLoading, policyVars, checkVars>>

\* a handler that puts the new license at the end
handleAddEditLicense_Append(licenseData) ==
    /\ isLicenseModalOpen
    /\ IF licenseData.id # <<>>
       THEN /\ licenseHeap' = [n \in DOMAIN licenseHeap \cup {licenseData.id[2]} |->
                                  IF n = licenseData.id[2] THEN licenseData
                                  ELSE licenseHeap[n]]
            /\ UNCHANGED <<allLicenses, nextId>>
       ELSE /\ licenseHeap' = licenseHeap @@
                                 (nextId :> [licenseData EXCEPT
                                                !.id = <<"LIC", nextId>>,
                                                !.documents = << >>])
            /\ allLicenses' = Append(allLicenses, nextId)
            /\ nextId' = nextId + 1
    /\ notification' = "success"
    /\ isLicenseModalOpen' = FALSE
    /\ editingLicense' = Null
    /\ licenseFormState' = LicenseFormAfterEffect(Null)
    /\ isLoading' = FALSE
    /\ UNCHANGED <<formVars, viewVars, licenseSearchTerm, licenseFilterStatus,
                   currentPageLicenses, policyVars, checkVars>>

\* handleAddEditLicense, called by the license form with what it holds; it
\* has no await.  A saved license takes the place of the one with its id
\* (the licenses of the list have different ids, and the number in an id is
\* the key of its object), a new one gets an id and empty documents and
\* goes in front.
handleAddEditLicense(licenseData) ==
    /\ isLicenseModalOpen
    /\ IF licenseData.id # <<>>
       THEN /\ licenseHeap' = [n \in DOMAIN licenseHeap \cup {licenseData.id[2]} |->
                                  IF n = licenseData.id[2] THEN licenseData
                                  ELSE licenseHeap[n]]
            /\ UNCHANGED <<allLicenses, nextId>>
       ELSE /\ licenseHeap' = licenseHeap @@
                                 (nextId :> [licenseData EXCEPT
                                                !.id = <<"LIC", nextId>>,
                                                !.documents = << >>])
            /\ allLicenses' = <<nextId>> \o allLicenses
            /\ nextId' = nextId + 1
    /\ notification' = "success"
    /\ isLicenseModalOpen' = FALSE
    /\ editingLicense' = Null
    /\ licenseFormState' = LicenseFormAfterEffect(Null)
    /\ isLoading' = FALSE
    /\ UNCHANGED <<formVars, viewVars, licenseSearchTerm, licenseFilterStatus,
                   currentPageLicenses, policyVars, checkVars>>

----------------------------------------------------------------------------
(* LicenseFormModal: the handlers behind the controls of the license form.  *)
(* The component renders nothing while isOpen is false.  Its formState is   *)
(* `licenseFormState` here.                                                 *)

\* handleChange of the license form, for the inputs named name and status
LicenseForm_handleChange(field, value) ==
    /\ isLicenseModalOpen
    /\ licenseFormState' =
           CASE field = "name" -> [licenseFormState EXCEPT !.name = value]
             [] field = "status" -> [licenseFormState EXCEPT !.status = value]
    /\ UNCHANGED <<nextId, formVars, notification, viewVars, licenseHeap, allLicenses,
                   isLicenseModalOpen, licenseSearchTerm, licenseFilterStatus,
                   currentPageLicenses, editingLicense, isLoading, policyVars, checkVars>>

\* handleJurisdictionChange: the option without a value finds no
\* jurisdiction and changes nothing
LicenseForm_handleJurisdictionChange(jurisdictionId) ==
    /\ isLicenseModalOpen
    /\ licenseFormState' =
           IF jurisdictionId # ""
           THEN [licenseFormState EXCEPT !.jurisdictionId = jurisdictionId]
           ELSE licenseFormState
    /\ UNCHANGED <<nextId, formVars, notification, viewVars, licenseHeap, allLicenses,
                   isLicenseModalOpen, licenseSearchTerm, licenseFilterStatus,
                   currentPageLicenses, editingLicense, isLoading, policyVars, checkVars>>

\* the licenses of the list with this id, as the numbers of their objects
LicensesWithId(licenseId) ==
    { allLicenses[k] : k \in { j \in 1..Len(allLicenses) :
                                  LicenseAt(allLicenses[j]).id = licenseId } }

\* handleUploadLicenseDocument(licenseId, document, file): it has no
\* await.  The license with the id is replaced by a copy that has the new
\* document at the end of its documents.
handleUploadLicenseDocument(licenseId, docName) ==
    LET newDoc == [id |-> <<"DOC", nextId>>, name |-> docName]
        hit == LicensesWithId(licenseId)
    IN  /\ licenseHeap' = [n \in DOMAIN licenseHeap \cup hit |->
                              IF n \in hit
                              THEN [LicenseAt(n) EXCEPT
                                       !.documents = Append(LicenseAt(n).documents, newDoc)]
                              ELSE licenseHeap[n]]
        /\ nextId' = nextId + 1
        /\ notification' = "success"
        /\ isLoading' = FALSE
        /\ UNCHANGED <<formVars, viewVars, allLicenses, isLicenseModalOpen,
                       licenseSearchTerm, licenseFilterStatus, currentPageLicenses,
                       licenseFormVars, policyVars, checkVars>>

\* handleDocumentUpload: the Upload Document button.  It is rendered when
\* the form has a license to edit, and is disabled while isLoading or while
\* no file is chosen or no document name is typed; docName is the name
\* typed.
LicenseForm_handleDocumentUpload(docName) ==
    /\ isLicenseModalOpen
    /\ editingLicense # Null
    /\ ~isLoading
    /\ IF licenseFormState.id # <<>>
       THEN handleUploadLicenseDocument(licenseFormState.id, docName)
       ELSE /\ notification' = "info"
            /\ UNCHANGED <<nextId, formVars, isLoading, pageVars>>

\* the validation of handleSubmit of the license form
LicenseSubmitRejected ==
    licenseFormState.name = EmptyName \/ licenseFormState.jurisdictionId = ""

\* handleSubmit of the license form, and the onSubmit callback it calls.
\* The submit button is disabled while isLoading.
LicenseForm_handleSubmit ==
    /\ isLicenseModalOpen
    /\ ~isLoading
    /\ IF LicenseSubmitRejected
       THEN /\ notification' = "error"
            /\ UNCHANGED <<nextId, formVars, isLoading, pageVars>>
       ELSE handleAddEditLicense(licenseFormState)

\* licenses of mockLicenses saved or given a document so far
Edited == Cardinality({ n \in DOMAIN licenseHeap : n < FirstFreeId })

\* the Edit button of row k may be used: its license is one the session has
\* changed already, or the session may change one more
EditAllowed(k) ==
    NoModalOpen =>
        LET rows == currentLicenses
        IN  k \in 1..Len(rows) => (rows[k] \in DOMAIN licenseHeap \/ Edited < MaxEdits)

\* the session of the license form: a license is added, the licenses of
\* the first rows are edited, documents are uploaded to them
NextLicenseForm ==
    \/ openAddLicenseModal
    \/ \E k \in EditRows : (EditAllowed(k) /\ openEditLicenseModal(k))
    \/ \E value \in LicenseNames : LicenseForm_handleChange("name", value)
    \/ LicenseForm_handleChange("status", "Suspended")
    \/ \E jurisdictionId \in {"", "JUR"} :
          LicenseForm_handleJurisdictionChange(jurisdictionId)
    \/ \E docName \in DocumentNames :
          (nextId - FirstFreeId < MaxAdds /\ LicenseForm_handleDocumentUpload(docName))
    \/ ((licenseFormState.id = <<>> /\ ~LicenseSubmitRejected)
            => nextId - FirstFreeId < MaxAdds)
          /\ LicenseForm_handleSubmit
    \/ onCloseLicenseModal

SpecLicenseForm == Init /\ [][NextLicenseForm]_vars

----------------------------------------------------------------------------
(* The AI compliance checker.  handleCheckCompliance is the one handler of *)
(* the view with an await: it runs to the call of generateContent, and its *)
(* continuation (or its catch block) and its finally block run when the    *)
(* promise settles, after any number of other handlers.  A call in flight  *)
(* is the closure of the handler waiting at its await; it reads the        *)
(* featureDesc of the render that started it.                              *)

\* checks started in one session
MaxChecks == 2

\* response.text of the model: empty, a report without a list of licenses,
\* a report with one
AiTexts == {"", "No new licenses.", "New licenses required: MSB and EMI"}

NoResponse == "No response generated."
ErrorReport ==
    "Error: Could not complete AI compliance check. Please try again or check API key."

\* response.text || "No response generated."
aiTextOf_NoFallback(text) == text

aiTextOf(text) == IF text = "" THEN NoResponse ELSE text

\* the match of /(?:new licenses required:|potential new licenses:|licenses
\* needed:)\s*([^\n\r]+)/i in the text, split at /,|\sand\s/i, each part
\* trimmed, the empty parts dropped
suggestedLicensesOf(aiText) ==
    CASE aiText = "New licenses required: MSB and EMI" ->
             FilterBoolean(<<trim("MSB"), trim("EMI")>>)
      [] OTHER -> FilterBoolean(<<trim("")>>)

\* createMockComplianceCheckResult(feature, licenses); riskLevel is drawn
\* with Math.random.  checkDate and aiReport are read by no handler and are
\* left out.
createMockComplianceCheckResult(feature, licenses, riskLevel) ==
    [id |-> <<"CCR", nextId>>, featureDescription |-> feature,
     suggestedLicenses |-> licenses, riskLevel |-> riskLevel, status |-> "Completed"]

\* the "AI Compliance Check" button of the page
openChecker ==
    /\ NoModalOpen
    /\ isCheckerOpen' = TRUE
    /\ UNCHANGED <<nextId, formVars, notification, isLoading, viewVars, licenseVars,
                   policyVars, featureDesc, complianceReport, allComplianceChecks,
                   aiCalls>>

\* the x of the checker and a click on its backdrop; neither is disabled
\* while a check is in flight
closeChecker ==
    /\ isCheckerOpen
    /\ isCheckerOpen' = FALSE
    /\ UNCHANGED <<nextId, formVars, notification, isLoading, viewVars, licenseVars,
                   policyVars, featureDesc, complianceReport, allComplianceChecks,
                   aiCalls>>

\* the textarea of the checker
setFeatureDesc(value) ==
    /\ isCheckerOpen
    /\ featureDesc' = value
    /\ UNCHANGED <<nextId, formVars, notification, isLoading, viewVars, licenseVars,
                   policyVars, isCheckerOpen, complianceReport, allComplianceChecks,
                   aiCalls>>

\* the catch block and the finally block
checkFailed ==
    /\ complianceReport' = ErrorReport
    /\ notification' = "error"
    /\ isLoading' = FALSE
    /\ UNCHANGED <<nextId, formVars, viewVars, licenseVars, policyVars, isCheckerOpen,
                   featureDesc, allComplianceChecks>>

\* the Check Compliance button, disabled={isLoading || !featureDesc.trim()}:
\* the handler up to its await.  new GoogleGenAI(...) is inside the try:
\* when it throws, the catch and finally blocks run in the same step.
handleCheckCompliance(constructed) ==
    /\ isCheckerOpen
    /\ ~isLoading
    /\ trim(featureDesc) # ""
    /\ IF constructed
       THEN /\ isLoading' = TRUE
            /\ complianceReport' = ""
            /\ aiCalls' = Append(aiCalls, [featureDesc |-> featureDesc])
            /\ UNCHANGED <<nextId, formVars, notification, viewVars, licenseVars,
                           policyVars, isCheckerOpen, featureDesc, allComplianceChecks>>
       ELSE /\ checkFailed
            /\ UNCHANGED aiCalls

\* the calls in flight but the k-th
CallsWithout(k) == [j \in 1..(Len(aiCalls) - 1) |-> aiCalls[IF j < k THEN j ELSE j + 1]]

\* the promise of call k is fulfilled: the rest of the try block, then the
\* finally block
generateContentReturns(k, text, riskLevel) ==
    /\ k \in 1..Len(aiCalls)
    /\ LET aiText == aiTextOf(text)
           newCheckResult ==
               createMockComplianceCheckResult(aiCalls[k].featureDesc,
                                               suggestedLicensesOf(aiText), riskLevel)
       IN  /\ complianceReport' = aiText
           /\ allComplianceChecks' = <<newCheckResult>> \o allComplianceChecks
    /\ nextId' = nextId + 1
    /\ notification' = "success"
    /\ isLoading' = FALSE
    /\ aiCalls' = CallsWithout(k)
    /\ UNCHANGED <<formVars, viewVars, licenseVars, policyVars, isCheckerOpen, featureDesc>>

\* a failure that also records a check, which the code does not have
generateContentThrows_Recorded(k) ==
    /\ k \in 1..Len(aiCalls)
    /\ complianceReport' = ErrorReport
    /\ allComplianceChecks' =
           <<createMockComplianceCheckResult(aiCalls[k].featureDesc, << >>, "Low")>>
               \o allComplianceChecks
    /\ notification' = "error"
    /\ isLoading' = FALSE
    /\ aiCalls' = CallsWithout(k)
    /\ UNCHANGED <<nextId, formVars, viewVars, licenseVars, policyVars, isCheckerOpen,
                   featureDesc>>

\* the promise of call k is rejected: the catch block, then the finally
\* block
generateContentThrows(k) ==
    /\ k \in 1..Len(aiCalls)
    /\ checkFailed
    /\ aiCalls' = CallsWithout(k)

\* checks started so far and not failed
Checks == Len(aiCalls) + Len(allComplianceChecks)

\* a call in flight settles
Settle ==
    \/ \E k \in 1..MaxChecks, text \in AiTexts, riskLevel \in RiskLevels :
          generateContentReturns(k, text, riskLevel)
    \/ \E k \in 1..MaxChecks : generateContentThrows(k)

\* the session of the checker: descriptions are typed, checks are started
\* and settle, the checker is closed and opened while they are in flight,
\* and the first licenses of the table are deleted meanwhile
NextCheck ==
    \/ openChecker
    \/ closeChecker
    \/ \E value \in FeatureDescs : setFeatureDesc(value)
    \/ \E constructed \in BOOLEAN : (Checks < MaxChecks /\ handleCheckCompliance(constructed))
    \/ Settle
    \/ (MockLicenses - Len(allLicenses) < MaxDeletes /\ deleteLicenseRow(1))
    \/ closeNotification

SpecCheck == Init /\ [][NextCheck]_vars

\* the event loop runs the continuation of a settled promise: a call in
\* flight that returns or throws does not wait forever
SpecCheckFair == SpecCheck /\ WF_vars(Settle)

----------------------------------------------------------------------------
(* The policies, and the session in which ids are given to records of      *)
(* every collection.  The form of a policy is not modelled: the handlers   *)
(* of LicensingView are called with a policy without id (Add New Policy)   *)
(* or with the policy of a row (Edit, Delete).  A policy is the number in  *)
(* its id.  The license edited or deleted is the first of allLicenses,     *)
(* whatever row of whatever page shows it; a record is deleted while its   *)
(* list is not shorter than it was at the start.                           *)

\* ids generateId gives in one session
MaxIds == 2

\* the rows of the policy table that are edited and deleted
PolicyRows == {1}

\* an add that takes the id of the newest record again, which the code
\* does not have
handleAddEditPolicy_SameId(policyData) ==
    /\ allPolicies' =
           IF policyData.id # <<>>
           THEN [k \in 1..Len(allPolicies) |->
                    IF allPolicies[k] = policyData.id[2] THEN policyData.id[2]
                    ELSE allPolicies[k]]
           ELSE <<nextId - 1>> \o allPolicies
    /\ nextId' = nextId
    /\ notification' = "success"
    /\ isLoading' = FALSE
    /\ UNCHANGED <<formVars, viewVars, licenseVars, allRegulatoryUpdates, checkVars>>

handleAddEditPolicy(policyData) ==
    /\ allPolicies' =
           IF policyData.id # <<>>
           THEN [k \in 1..Len(allPolicies) |->
                    IF allPolicies[k] = policyData.id[2] THEN policyData.id[2]
                    ELSE allPolicies[k]]
           ELSE <<nextId>> \o allPolicies
    /\ nextId' = IF policyData.id # <<>> THEN nextId ELSE nextId + 1
    /\ notification' = "success"
    /\ isLoading' = FALSE
    /\ UNCHANGED <<formVars, viewVars, licenseVars, allRegulatoryUpdates, checkVars>>

handleDeletePolicy(policyId) ==
    /\ allPolicies' = SelectSeq(allPolicies, LAMBDA pol : <<"POL", pol>> # policyId)
    /\ notification' = "success"
    /\ isLoading' = FALSE
    /\ UNCHANGED <<nextId, formVars, viewVars, licenseVars, allRegulatoryUpdates,
                   checkVars>>

\* the Save button of the policy form, for a new policy and for the policy
\* of row k
addPolicy ==
    /\ NoModalOpen
    /\ handleAddEditPolicy([id |-> <<>>])

editPolicyRow(k) ==
    /\ NoModalOpen
    /\ k \in 1..Len(allPolicies)
    /\ handleAddEditPolicy([id |-> <<"POL", allPolicies[k]>>])

\* the Delete button of row k of the policy table
deletePolicyRow(k) ==
    /\ NoModalOpen
    /\ k \in 1..Len(allPolicies)
    /\ handleDeletePolicy(<<"POL", allPolicies[k]>>)

\* a render of LicenseFormModal or PolicyFormModal with no record to edit:
\* the argument of useState, createMockLicense({id: '', ...}), is evaluated
\* at every render and takes an id that no record gets.  React renders
\* after every state change and may render more often.
renderBlankForm ==
    /\ editingLicense = Null
    /\ nextId' = nextId + 1
    /\ UNCHANGED <<formVars, notification, isLoading, pageVars>>

\* ids are left in the session
IdsLeft == nextId - FirstFreeId < MaxIds

\* the step would take an id
TakesId(saved) == saved.id = <<>>

NextIds ==
    \/ (IdsLeft /\ handleAddRiskItem)
    \/ handleRemoveRiskItem(1)
    \/ handleChange("s")
    \/ ((TakesId(formState) /\ ~SubmitRejected) => IdsLeft) /\ handleSubmit
    \/ onClose
    \/ openAddRiskAssessmentModal
    \/ openEditRiskAssessmentModal(1)
    \/ deleteRiskAssessmentRow(1)
    \/ openAddLicenseModal
    \/ \E licenseData \in NewLicenses :
          (IdsLeft /\ isLicenseModalOpen /\ editingLicense = Null
              /\ handleAddEditLicense(licenseData))
    \/ (NoModalOpen /\ allLicenses # << >> /\ editLicense(LicenseAt(Head(allLicenses))))
    \/ \E docName \in DocumentNames : (IdsLeft /\ LicenseForm_handleDocumentUpload(docName))
    \/ (editingLicense # Null /\ LicenseForm_handleSubmit)
    \/ onCloseLicenseModal
    \/ (NoModalOpen /\ Len(allLicenses) >= MockLicenses
            /\ handleDeleteLicense(LicenseAt(Head(allLicenses)).id))
    \/ (IdsLeft /\ addPolicy)
    \/ \E k \in PolicyRows : editPolicyRow(k)
    \/ \E k \in PolicyRows :
          (Len(allPolicies) >= MockPolicies /\ deletePolicyRow(k))
    \/ (IdsLeft /\ renderBlankForm)

SpecIds == Init /\ [][NextIds]_vars

\* licenses deleted so far
Deleted == MockLicenses + (nextId - FirstFreeId) - Len(allLicenses)

\* pages of the whole list: the page buttons there can be
MaxPages == (MockLicenses + MaxAdds + licensesPerPage - 1) \div licensesPerPage

NextLicenses ==
    \/ \E value \in SearchTerms : setLicenseSearchTerm(value)
    \/ \E value \in LicenseFilters : setLicenseFilterStatus(value)
    \/ previousPage
    \/ \E i \in 1..MaxPages : pageButton(i)
    \/ nextPage
    \/ \E k \in 1..licensesPerPage : (Deleted < MaxDeletes /\ deleteLicenseRow(k))
    \/ openAddLicenseModal
    \/ onCloseLicenseModal
    \/ \E licenseData \in NewLicenses :
          (nextId - FirstFreeId < MaxAdds /\ handleAddEditLicense(licenseData))
    \/ closeNotification

SpecLicenses == Init /\ [][NextLicenses]_vars

----------------------------------------------------------------------------
(* The sessions: what a user can do next.  The bounds close the session:    *)
(* no further item once MaxItems item objects exist, no further new         *)
(* assessment once MaxAssessments are stored.                               *)

SubmitAllowed ==
    (formState.scope # "" /\ Len(formState.identifiedRisks) > 0 /\ formState.id = <<>>)
        => Len(allRiskAssessments) < MaxAssessments

\* the controls of the item at `index`, sending values of the given sets
ItemControls(index, likelihoods, impacts, descriptions, controls) ==
    \/ \E value \in descriptions : handleRiskItemChange(index, "description", value)
    \/ \E value \in likelihoods : handleRiskItemChange(index, "likelihood", value)
    \/ \E value \in impacts : handleRiskItemChange(index, "impact", value)
    \/ \E parts \in controls : handleMitigationControlsChange(index, parts)
    \/ handleRemoveRiskItem(index)

Next ==
    \/ \E index \in 1..MaxItems :
          ItemControls(index, Ordinals, Ordinals, Descriptions, MitigationInputs)
    \/ (Cardinality(DOMAIN heap) < MaxItems /\ handleAddRiskItem)
    \/ \E value \in Scopes : handleChange(value)
    \/ onClose
    \/ (SubmitAllowed /\ handleSubmit)
    \/ openAddRiskAssessmentModal
    \/ \E k \in 1..MaxAssessments : openEditRiskAssessmentModal(k)

Spec == Init /\ [][Next]_vars

----------------------------------------------------------------------------
(* The session with the details modal and the Delete buttons of the risk   *)
(* assessments *)

NextDelete ==
    \/ Next
    \/ \E k \in 1..MaxAssessments : deleteRiskAssessmentRow(k)
    \/ \E k \in 1..MaxAssessments : openViewRiskAssessmentModal(k)
    \/ onCloseDetails
    \/ \E confirmed \in BOOLEAN : handleDeleteClick(confirmed)
    \/ handleEditClick

SpecDelete == Init /\ [][NextDelete]_vars

----------------------------------------------------------------------------
(* The edit session of one form, before it is submitted *)

NextForm ==
    \/ \E index \in 1..MaxItems :
          ItemControls(index, Ordinals, Ordinals, Descriptions, MitigationInputs)
    \/ (Cardinality(DOMAIN heap) < MaxItems /\ handleAddRiskItem)
    \/ \E value \in Scopes : handleChange(value)
    \/ onClose
    \/ openAddRiskAssessmentModal

SpecForm == Init /\ [][NextForm]_vars

----------------------------------------------------------------------------
(* The session in which assessments are stored: items are added and        *)
(* removed, never rescored *)

NextStore ==
    \/ (Cardinality(DOMAIN heap) < MaxItems /\ handleAddRiskItem)
    \/ \E index \in 1..MaxItems : handleRemoveRiskItem(index)
    \/ \E value \in Scopes : handleChange(value)
    \/ onClose
    \/ (SubmitAllowed /\ handleSubmit)
    \/ openAddRiskAssessmentModal
    \/ \E k \in 1..MaxAssessments : openEditRiskAssessmentModal(k)
    \/ closeNotification

SpecStore == Init /\ [][NextStore]_vars

\* the same session with a caller of handleRiskItemChange(index, field,
\* value: string) that is not bound to the options of the selects
NextEnum ==
    \/ \E index \in 1..MaxItems :
          ItemControls(index, Ordinals \cup OutOfDomain, Ordinals \cup OutOfDomain,
                       Descriptions, MitigationInputs)
    \/ (Cardinality(DOMAIN heap) < MaxItems /\ handleAddRiskItem)
    \/ \E value \in Scopes : handleChange(value)
    \/ onClose
    \/ openAddRiskAssessmentModal

SpecEnum == Init /\ [][NextEnum]_vars

\* the fields of RiskItem the form has no control for
DerivedFields == {"inherentRisk", "residualRisk"}

\* the same session with a caller of handleRiskItemChange(index, field:
\* keyof RiskItem, value) that is not bound to the three fields the form's
\* inputs name
NextKeyof ==
    \/ \E index \in 1..MaxItems :
          ItemControls(index, Ordinals, Ordinals, Descriptions, MitigationInputs)
    \/ \E index \in 1..MaxItems, field \in DerivedFields, value \in RiskLevels :
          handleRiskItemChange(index, field, value)
    \/ (Cardinality(DOMAIN heap) < MaxItems /\ handleAddRiskItem)
    \/ \E value \in Scopes : handleChange(value)
    \/ onClose
    \/ openAddRiskAssessmentModal

SpecKeyof == Init /\ [][NextKeyof]_vars

----------------------------------------------------------------------------
(* Two handlers of the form called before the component renders again.     *)
(* Both are closures of the same render: `formState` in their bodies is    *)
(* the rendered state, while the function each passes to setFormState      *)
(* receives as `prev` the state the updaters queued before it have left.   *)
(* The writes of a body go into item objects at once; they touch objects   *)
(* of the rendered form only, the updaters create objects only, so taking  *)
(* each body together with its updater changes no outcome.                 *)

\* an operation of the form: the handler and the arguments the rendered
\* control passes; `item` is the heap key of the item the control belongs to
Operation(kind, item, field, value, parts) ==
    [kind |-> kind, item |-> item, field |-> field, value |-> value, parts |-> parts]

\* the operations the controls of the rendered form c offer
Operations(c) ==
    LET items == { c.identifiedRisks[k] : k \in 1..Len(c.identifiedRisks) }
    IN  { Operation("handleAddRiskItem", 0, "", "", <<>>) }
        \cup { Operation("handleRemoveRiskItem", item, "", "", <<>>) : item \in items }
        \cup { Operation("handleRiskItemChange", item, "description", "d", <<>>) : item \in items }
        \cup { Operation("handleRiskItemChange", item, field, "High", <<>>) :
                   item \in items, field \in {"likelihood", "impact"} }
        \cup { Operation("handleMitigationControlsChange", item, "", "", <<" a", " ", "b ">>) :
                   item \in items }

\* the state the next updater receives: the pending form, the objects, the
\* counter of generateId
Pending(form, h, n) == [form |-> form, heap |-> h, nextId |-> n]

\* one handler called from the render of form c, and its updater run on s
Run(o, c, s) ==
    CASE o.kind = "handleRiskItemChange" ->
             Pending([s.form EXCEPT !.identifiedRisks = c.identifiedRisks],
                     [s.heap EXCEPT ![o.item] = ChangedRisk(s.heap[o.item], o.field, o.value)],
                     s.nextId)
      [] o.kind = "handleMitigationControlsChange" ->
             Pending([s.form EXCEPT !.identifiedRisks = c.identifiedRisks],
                     [s.heap EXCEPT ![o.item].mitigationControls = ParseControls(o.parts)],
                     s.nextId)
      [] o.kind = "handleAddRiskItem" ->
             Pending([s.form EXCEPT !.identifiedRisks = Append(s.form.identifiedRisks, s.nextId)],
                     s.heap @@ (s.nextId :> NewRiskItem(s.nextId)),
                     s.nextId + 1)
      [] o.kind = "handleRemoveRiskItem" ->
             Pending([s.form EXCEPT !.identifiedRisks =
                         SelectSeq(s.form.identifiedRisks,
                                   LAMBDA item : s.heap[item].id # s.heap[o.item].id)],
                     s.heap,
                     s.nextId)

\* o1 then o2, both called from the render of formState
Batched(o1, o2) ==
    Run(o2, formState, Run(o1, formState, Pending(formState, heap, nextId)))

\* the event handlers of two controls run before the next render
Batch(o1, o2) ==
    /\ isRiskAssessmentModalOpen
    /\ UNCHANGED <<isLoading, pageVars>>
    /\ o1 \in Operations(formState)
    /\ o2 \in Operations(formState)
    /\ formState' = Batched(o1, o2).form
    /\ heap' = Batched(o1, o2).heap
    /\ nextId' = Batched(o1, o2).nextId
    /\ UNCHANGED <<allRiskAssessments, editingRiskAssessment,
                   isRiskAssessmentModalOpen, notification>>

\* the item objects a batch creates
Created(o1, o2) ==
    (IF o1.kind = "handleAddRiskItem" THEN 1 ELSE 0)
        + (IF o2.kind = "handleAddRiskItem" THEN 1 ELSE 0)

NextBatch ==
    \/ \E index \in 1..BatchItems :
          ItemControls(index, {"High"}, {"High"}, {"d"}, {<<" a", " ", "b ">>})
    \/ (Cardinality(DOMAIN heap) < BatchItems /\ handleAddRiskItem)
    \/ onClose
    \/ openAddRiskAssessmentModal
    \/ \E o1 \in Operations(formState), o2 \in Operations(formState) :
          /\ Cardinality(DOMAIN heap) + Created(o1, o2) <= BatchItems
          /\ Batch(o1, o2)

SpecBatch == Init /\ [][NextBatch]_vars

----------------------------------------------------------------------------
(* The edit session of one form with several items: items are added,       *)
(* edited (likelihood, controls) and removed.                              *)

NextOrder ==
    \/ \E index \in 1..OrderItems :
          \/ \E value \in {"Low", "Medium"} : handleRiskItemChange(index, "likelihood", value)
          \/ handleMitigationControlsChange(index, <<" a", " ", "b ">>)
          \/ handleRemoveRiskItem(index)
    \/ (Cardinality(DOMAIN heap) < OrderItems /\ handleAddRiskItem)
    \/ onClose
    \/ openAddRiskAssessmentModal

SpecOrder == Init /\ [][NextOrder]_vars

----------------------------------------------------------------------------
(* The submission of a filled form.  The form of a new assessment is open   *)
(* with up to SubmitItems items; each item is in a state the controls       *)
(* leave it in: added, its controls typed, its likelihood and its impact    *)
(* selected.                                                                *)

ScoredItem(id, likelihood, impact, parts) ==
    ChangedRisk(
        ChangedRisk([NewRiskItem(id) EXCEPT !.mitigationControls = ParseControls(parts)],
                    "likelihood", likelihood),
        "impact", impact)

ScoredItems(id) ==
    { ScoredItem(id, l, i, parts) : l \in Ordinals, i \in Ordinals, parts \in MitigationInputs }

InitSubmit ==
    \E n \in 0..SubmitItems :
        /\ nextId = FirstFreeId + n
        /\ heap \in { h \in [FirstFreeId..(FirstFreeId + n - 1) ->
                                UNION { ScoredItems(id) : id \in FirstFreeId..(FirstFreeId + n - 1) }] :
                        \A id \in DOMAIN h : h[id].id = id }
        /\ allRiskAssessments = << >>
        /\ editingRiskAssessment = Null
        /\ isRiskAssessmentModalOpen = TRUE
        /\ notification = "none"
        /\ InitPage
        /\ \E scope \in Scopes :
               formState = [BlankAssessment EXCEPT
                               !.scope = scope,
                               !.identifiedRisks = [k \in 1..n |-> FirstFreeId + k - 1]]

NextSubmit == handleSubmit

SpecSubmit == InitSubmit /\ [][NextSubmit]_vars

----------------------------------------------------------------------------
(* What the specification says, stated without the operators of the model  *)

\* rank of section 4.1: Low 1, Medium 2, High 3
Rank(o) == CASE o = "Low" -> 1 [] o = "Medium" -> 2 [] o = "High" -> 3

\* the boundary table of section 8, with its symmetric entries
ExpectedInherentRisk(likelihood, impact) ==
    LET pair == <<likelihood, impact>>
    IN  CASE pair = <<"Low", "Low">> -> "Low"
          [] pair \in {<<"Low", "Medium">>, <<"Medium", "Low">>} -> "Medium"
          [] pair \in {<<"Low", "High">>, <<"High", "Low">>} -> "Medium"
          [] pair = <<"Medium", "Medium">> -> "High"
          [] pair \in {<<"Medium", "High">>, <<"High", "Medium">>} -> "Critical"
          [] pair = <<"High", "High">> -> "Critical"

\* demotion by one level, with Low as the floor
Demoted(level) ==
    CASE level = "Critical" -> "High"
      [] level = "High" -> "Medium"
      [] level = "Medium" -> "Low"
      [] level = "Low" -> "Low"

ExpectedResidualRisk(risk) ==
    IF risk.mitigationControls # <<>> THEN Demoted(risk.inherentRisk)
    ELSE risk.inherentRisk

\* position of a level in Low < Medium < High < Critical
LevelRank(level) ==
    CASE level = "Low" -> 0 [] level = "Medium" -> 1 [] level = "High" -> 2
      [] level = "Critical" -> 3

\* the greatest residualRisk among the items, Low when there is none
MaxResidualRisk(risks, h) ==
    LET levels == { h[risks[k]].residualRisk : k \in 1..Len(risks) } \cup {"Low"}
    IN  CHOOSE top \in levels : \A level \in levels : LevelRank(level) <= LevelRank(top)

\* the items of the form, as objects
FormItems == { heap[formState.identifiedRisks[k]] : k \in 1..Len(formState.identifiedRisks) }

\* a step of handleRiskItemChange that scores the item at `index`
ScoringStep(index) ==
    \E field \in {"likelihood", "impact"}, value \in Ordinals :
        handleRiskItemChange(index, field, value)

\* handleSubmit got past its validation and called onSubmit
SubmitAccepted ==
    handleSubmit /\ formState.scope # "" /\ Len(formState.identifiedRisks) > 0

\* the assessment onSubmit was called with, read back from the list after
\* the step: the head for a new assessment, the replaced entry otherwise
Submitted(list) ==
    IF formState.id = <<>> THEN list[1]
    ELSE list[CHOOSE k \in 1..Len(list) : list[k].id = formState.id]

----------------------------------------------------------------------------
(* C1: in every state of an edit session, each item's inherentRisk and     *)
(* residualRisk are what scoring its current likelihood, impact and        *)
(* mitigationControls gives; no state shows stale values.                  *)
C1_DerivedAlwaysConsistent ==
    \A risk \in FormItems :
        /\ risk.inherentRisk = ExpectedInherentRisk(risk.likelihood, risk.impact)
        /\ risk.residualRisk = ExpectedResidualRisk(risk)

(* C2: scoring gives the inherentRisk of the table: Low/Low Low,           *)
(* Low/Medium Medium, Low/High Medium, Medium/Medium High, Medium/High     *)
(* Critical, High/High Critical, i.e. the bucket of rank * rank.           *)
C2_InherentRiskTable ==
    [][\A index \in 1..MaxItems :
          ScoringStep(index) =>
              LET risk == heap'[formState.identifiedRisks[index]]
                  score == Rank(risk.likelihood) * Rank(risk.impact)
              IN  /\ risk.inherentRisk = ExpectedInherentRisk(risk.likelihood, risk.impact)
                  /\ risk.inherentRisk = "Critical" <=> score >= 6
                  /\ risk.inherentRisk = "High" <=> (score >= 4 /\ score < 6)
                  /\ risk.inherentRisk = "Medium" <=> (score >= 2 /\ score < 4)
                  /\ risk.inherentRisk = "Low" <=> score < 2]_vars

C2_Witness ==
    \E risk \in FormItems :
        /\ risk.likelihood = "Medium" /\ risk.impact = "High"
        /\ risk.inherentRisk = "Critical"

(* C3: an item that has a mitigation control when it is scored gets its    *)
(* inherentRisk demoted by one level as residualRisk, Low staying Low.     *)
C3_MitigationDemotes ==
    [][\A index \in 1..MaxItems :
          ScoringStep(index) =>
              LET risk == heap'[formState.identifiedRisks[index]]
              IN  Len(risk.mitigationControls) >= 1 =>
                      risk.residualRisk = Demoted(risk.inherentRisk)]_vars

C3_Witness ==
    \E risk \in FormItems :
        /\ risk.mitigationControls = <<"a", "b">>
        /\ risk.likelihood = "High" /\ risk.impact = "High"
        /\ risk.inherentRisk = "Critical" /\ risk.residualRisk = "High"

(* C4: an item without mitigation controls gets, when it is scored, a      *)
(* residualRisk equal to its inherentRisk.                                 *)
C4_NoMitigationIdentity ==
    [][\A index \in 1..MaxItems :
          ScoringStep(index) =>
              LET risk == heap'[formState.identifiedRisks[index]]
              IN  risk.mitigationControls = <<>> =>
                      risk.residualRisk = risk.inherentRisk]_vars

C4_Witness ==
    \E risk \in FormItems :
        /\ risk.mitigationControls = <<>>
        /\ risk.likelihood = "Medium" /\ risk.impact = "Medium"
        /\ risk.inherentRisk = "High" /\ risk.residualRisk = "High"

(* C5: the overallRiskRating handed to onSubmit is the greatest            *)
(* residualRisk of the form's items under Low < Medium < High < Critical.  *)
C5_SubmittedOverallIsMax ==
    [][SubmitAccepted =>
          Submitted(allRiskAssessments').overallRiskRating
              = MaxResidualRisk(formState.identifiedRisks, heap)]_vars

\* residual risks Low, High, Medium were submitted and gave High
C5_Witness ==
    \E k \in 1..Len(allRiskAssessments) :
        LET a == allRiskAssessments[k]
        IN  /\ Len(a.identifiedRisks) = 3
            /\ [j \in 1..3 |-> heap[a.identifiedRisks[j]].residualRisk]
                   = <<"Low", "High", "Medium">>
            /\ a.overallRiskRating = "High"

(* C6: every assessment in the list has an overallRiskRating equal to the  *)
(* greatest residualRisk of its own identifiedRisks.                       *)
C6_StoredOverallIsMax ==
    \A k \in 1..Len(allRiskAssessments) :
        allRiskAssessments[k].overallRiskRating
            = MaxResidualRisk(allRiskAssessments[k].identifiedRisks, heap)

(* C7, as claimed: the overall rating of an assessment without items is    *)
(* computed, is Low, and no error is raised.                               *)
C7_EmptyGivesLowWithoutError ==
    [][(handleSubmit /\ formState.scope # "" /\ formState.identifiedRisks = <<>>) =>
          /\ notification' # "error"
          /\ Len(allRiskAssessments') = Len(allRiskAssessments) + 1
          /\ Submitted(allRiskAssessments').overallRiskRating = "Low"]_vars

(* C7, amended: submitting an assessment without items is treated as an    *)
(* error: an error notification, nothing handed to onSubmit, no overall    *)
(* rating computed (the form keeps the one it had).                        *)
C7_EmptyIsRejected ==
    [][(handleSubmit /\ formState.identifiedRisks = <<>>) =>
          /\ notification' = "error"
          /\ allRiskAssessments' = allRiskAssessments
          /\ formState' = formState
          /\ isRiskAssessmentModalOpen']_vars

C7_Witness ==
    /\ notification = "error"
    /\ formState.scope # ""
    /\ formState.identifiedRisks = <<>>
    /\ allRiskAssessments = <<>>

\* the values of OutOfDomain ranked as the code ranks them
LenientRank(o) == IF o = "Extreme" THEN 0 ELSE IF o = "" THEN 1 ELSE Rank(o)

\* a step of handleRiskItemChange that writes a value outside the ordinals
\* into likelihood or impact of the item at `index`
OutOfDomainStep(index) ==
    \E field \in {"likelihood", "impact"}, value \in OutOfDomain :
        handleRiskItemChange(index, field, value)

(* C8, as claimed: scoring with a likelihood or impact outside Low,        *)
(* Medium, High fails fast: nothing is produced and nothing is stored.     *)
C8_InvalidEnumFailsFast ==
    [][\A index \in 1..MaxItems : OutOfDomainStep(index) => heap' = heap]_vars

(* C8, amended: scoring with a likelihood or impact outside Low, Medium,   *)
(* High raises no error; the value is stored, an empty value ranks as Low, *)
(* any other unknown value ranks 0, and inherentRisk and residualRisk are  *)
(* produced from the product of the ranks as for any item.                 *)
C8_OutOfDomainIsScored ==
    [][\A index \in 1..MaxItems :
          OutOfDomainStep(index) =>
              LET risk == heap'[formState.identifiedRisks[index]]
                  score == LenientRank(risk.likelihood) * LenientRank(risk.impact)
              IN  /\ risk.likelihood \in OutOfDomain \/ risk.impact \in OutOfDomain
                  /\ risk.inherentRisk =
                         (CASE score >= 6 -> "Critical"
                            [] score \in {4, 5} -> "High"
                            [] score \in {2, 3} -> "Medium"
                            [] score \in {0, 1} -> "Low")
                  /\ risk.residualRisk = ExpectedResidualRisk(risk)]_vars

C8_Witness ==
    \E risk \in FormItems :
        /\ risk.likelihood = "Extreme" /\ risk.impact = "High"
        /\ risk.inherentRisk = "Low" /\ risk.residualRisk = "Low"

(* C9: the overall rating does not depend on the order of the items: the   *)
(* rating handed to onSubmit is the rating of every permutation of the     *)
(* form's items.                                                           *)
C9_OverallOrderIndependent ==
    [][SubmitAccepted =>
          LET risks == formState.identifiedRisks
          IN  \A p \in Permutations(1..Len(risks)) :
                  maxRisk([k \in 1..Len(risks) |-> risks[p[k]]], heap)
                      = Submitted(allRiskAssessments').overallRiskRating]_vars

\* a submitted assessment whose greatest residual risk is not at its end
C9_Witness ==
    \E k \in 1..Len(allRiskAssessments) :
        LET a == allRiskAssessments[k]
        IN  /\ Len(a.identifiedRisks) >= 2
            /\ heap[a.identifiedRisks[1]].residualRisk = "Critical"
            /\ heap[a.identifiedRisks[Len(a.identifiedRisks)]].residualRisk = "Medium"
            /\ a.overallRiskRating = "Critical"

(* C10: scoring is deterministic: the inherentRisk and residualRisk a      *)
(* scoring step leaves are those of a second run on the same likelihood,   *)
(* impact and controls, whatever description, inherentRisk and             *)
(* residualRisk the item had before.                                       *)
C10_ScoringDeterministic ==
    [][\A index \in 1..MaxItems, field \in {"likelihood", "impact"}, value \in Ordinals :
          handleRiskItemChange(index, field, value) =>
              LET id == formState.identifiedRisks[index]
              IN  \A inherent \in RiskLevels, residual \in RiskLevels, text \in Descriptions :
                      LET other == [heap[id] EXCEPT !.inherentRisk = inherent,
                                                    !.residualRisk = residual,
                                                    !.description = text]
                          rerun == ChangedRisk(other, field, value)
                      IN  /\ rerun.inherentRisk = heap'[id].inherentRisk
                          /\ rerun.residualRisk = heap'[id].residualRisk]_vars

\* an item scored while it had controls and an inherentRisk other than the
\* one it gets
C10_Witness ==
    \E risk \in FormItems :
        /\ risk.likelihood = "High" /\ risk.impact = "Low"
        /\ risk.mitigationControls # <<>>
        /\ risk.inherentRisk = "Medium" /\ risk.residualRisk = "Low"

(* C11: inherentRisk is monotonic in likelihood and in impact: a scoring   *)
(* step that raises one of them and keeps the other never lowers           *)
(* inherentRisk, and one that lowers it never raises inherentRisk.         *)
C11_InherentRiskMonotonic ==
    [][\A index \in 1..MaxItems, value \in Ordinals :
          /\ handleRiskItemChange(index, "likelihood", value) =>
                 LET id == formState.identifiedRisks[index]
                 IN  /\ Rank(value) >= Rank(heap[id].likelihood) =>
                            LevelRank(heap'[id].inherentRisk) >= LevelRank(heap[id].inherentRisk)
                     /\ Rank(value) <= Rank(heap[id].likelihood) =>
                            LevelRank(heap'[id].inherentRisk) <= LevelRank(heap[id].inherentRisk)
          /\ handleRiskItemChange(index, "impact", value) =>
                 LET id == formState.identifiedRisks[index]
                 IN  /\ Rank(value) >= Rank(heap[id].impact) =>
                            LevelRank(heap'[id].inherentRisk) >= LevelRank(heap[id].inherentRisk)
                     /\ Rank(value) <= Rank(heap[id].impact) =>
                            LevelRank(heap'[id].inherentRisk) <= LevelRank(heap[id].inherentRisk)]_vars

\* an item raised to likelihood High at impact Medium
C11_Witness ==
    \E risk \in FormItems :
        /\ risk.likelihood = "High" /\ risk.impact = "Medium"
        /\ risk.inherentRisk = "Critical" /\ risk.residualRisk = "Critical"

\* the items of an assessment as objects, read from heap h
ItemsOf(assessment, h) ==
    [j \in 1..Len(assessment.identifiedRisks) |-> h[assessment.identifiedRisks[j]]]

(* C12: scoring has no side effects: a scoring step leaves every object    *)
(* that existed before it as it was: the items of the assessment passed in *)
(* for editing, the items of every stored assessment, and every other risk *)
(* item.                                                                   *)
C12_ScoringLeavesExistingObjects ==
    [][\A index \in 1..MaxItems :
          ScoringStep(index) =>
              /\ editingRiskAssessment # Null =>
                     ItemsOf(editingRiskAssessment, heap')
                         = ItemsOf(editingRiskAssessment, heap)
              /\ \A k \in 1..Len(allRiskAssessments) :
                     ItemsOf(allRiskAssessments[k], heap')
                         = ItemsOf(allRiskAssessments[k], heap)
              /\ \A id \in DOMAIN heap \ {formState.identifiedRisks[index]} :
                     heap'[id] = heap[id]]_vars

FreshResidualRisk(risk) ==
    ExpectedResidualRisk(
        [risk EXCEPT !.inherentRisk = ExpectedInherentRisk(risk.likelihood, risk.impact)])

\* the greatest freshly scored residualRisk among the items
MaxFreshResidualRisk(risks, h) ==
    LET levels == { FreshResidualRisk(h[risks[k]]) : k \in 1..Len(risks) } \cup {"Low"}
    IN  CHOOSE top \in levels : \A level \in levels : LevelRank(level) <= LevelRank(top)

(* C14: the scoring is run again before an assessment is final: every      *)
(* assessment handed to onSubmit has, for each item, the inherentRisk and  *)
(* residualRisk that scoring the item's likelihood, impact and controls at *)
(* the time of submission gives, and an overallRiskRating computed from    *)
(* those residual risks.                                                   *)
C14_SubmittedIsFreshlyScored ==
    [][SubmitAccepted =>
          LET a == Submitted(allRiskAssessments')
          IN  /\ \A j \in 1..Len(a.identifiedRisks) :
                     LET risk == heap'[a.identifiedRisks[j]]
                     IN  /\ risk.inherentRisk
                                = ExpectedInherentRisk(risk.likelihood, risk.impact)
                         /\ risk.residualRisk = FreshResidualRisk(risk)
              /\ a.overallRiskRating = MaxFreshResidualRisk(a.identifiedRisks, heap')]_vars

\* the operation can be issued from the form: its control is rendered
Applicable(o, form) == o \in Operations(form)

\* o1 run and rendered, then o2 issued from the form o1 left; when o1
\* removed the item o2 is about, o2 has no control left and does not run
Sequential(o1, o2) ==
    LET s1 == Run(o1, formState, Pending(formState, heap, nextId))
    IN  IF Applicable(o2, s1.form) THEN Run(o2, s1.form, s1) ELSE s1

\* the outcomes of running the two operations one after the other, in
\* either order
SequentialOutcomes(o1, o2) == { Sequential(o1, o2), Sequential(o2, o1) }

(* C15: two operations on the items of a form that are issued from the     *)
(* same observed state leave the items as running the two one after the    *)
(* other, in one order or the other, would leave them: no effect is lost.  *)
C15_ConcurrentAsSequential ==
    [][\A o1 \in Operations(formState), o2 \in Operations(formState) :
          Batch(o1, o2) =>
              Pending(formState', heap', nextId') \in SequentialOutcomes(o1, o2)]_vars

(* C16: a newly constructed assessment, i.e. the form opened without an    *)
(* existing assessment, starts with zero risk items and an                 *)
(* overallRiskRating of Low.                                               *)
C16_NewAssessmentStartsEmpty ==
    [][openAddRiskAssessmentModal =>
          /\ formState'.identifiedRisks = <<>>
          /\ formState'.overallRiskRating = "Low"]_vars

\* a sequence without its element at position k
Without(seq, k) == SubSeq(seq, 1, k - 1) \o SubSeq(seq, k + 1, Len(seq))

(* C17: identifiedRisks keeps entry order: adding an item puts it after    *)
(* all the items there are, removing an item or editing one leaves the     *)
(* other items in the order they had, whatever their risk levels.          *)
C17_EntryOrderKept ==
    [][/\ handleAddRiskItem =>
              /\ Len(formState'.identifiedRisks) = Len(formState.identifiedRisks) + 1
              /\ SubSeq(formState'.identifiedRisks, 1, Len(formState.identifiedRisks))
                     = formState.identifiedRisks
              /\ \A k \in 1..Len(formState.identifiedRisks) :
                     formState.identifiedRisks[k]
                         # formState'.identifiedRisks[Len(formState'.identifiedRisks)]
       /\ \A index \in 1..OrderItems :
              /\ handleRemoveRiskItem(index) =>
                     formState'.identifiedRisks = Without(formState.identifiedRisks, index)
              /\ (\/ \E field \in {"description", "likelihood", "impact"},
                        value \in Ordinals \cup Descriptions :
                         handleRiskItemChange(index, field, value)
                  \/ \E parts \in MitigationInputs :
                         handleMitigationControlsChange(index, parts)) =>
                     formState'.identifiedRisks = formState.identifiedRisks]_vars

\* the first and the third item entered are left, the riskier one behind
C17_Witness ==
    /\ formState.identifiedRisks = <<FirstFreeId, FirstFreeId + 2>>
    /\ heap[FirstFreeId].residualRisk = "Low"
    /\ heap[FirstFreeId + 2].residualRisk = "Medium"
    /\ heap[FirstFreeId + 1].residualRisk = "Medium"

\* the assessment with this id is in the list
Stored(id, list) == \E j \in 1..Len(list) : list[j].id = id

(* C18: after the user deletes a stored risk assessment, from its row or   *)
(* from its details view, that assessment is no longer in the list of risk *)
(* assessments, and no license is removed.                                 *)
C18_DeleteRemovesTheAssessment ==
    [][/\ \A k \in 1..MaxAssessments :
              deleteRiskAssessmentRow(k) =>
                  /\ ~Stored(allRiskAssessments[k].id, allRiskAssessments')
                  /\ allLicenses' = allLicenses
       /\ handleDeleteClick(TRUE) =>
              /\ ~Stored(viewingRiskAssessment.id, allRiskAssessments')
              /\ allLicenses' = allLicenses]_vars

(* C19: the inherent score, rank(likelihood) * rank(impact), is an integer *)
(* from 1 to 9 for every likelihood and impact of Low, Medium, High; it is *)
(* never 0.                                                                *)
C19_InherentScoreRange ==
    [][\A index \in 1..MaxItems :
          ScoringStep(index) =>
              LET risk == heap'[formState.identifiedRisks[index]]
              IN  /\ inherentScore(risk) \in 1..9
                  /\ inherentScore(risk) = Rank(risk.likelihood) * Rank(risk.impact)]_vars

\* an item scored at the top of the range, and no controls on it
C19_Witness ==
    \E risk \in FormItems :
        /\ risk.likelihood = "High" /\ risk.impact = "High"
        /\ inherentScore(risk) = 9
        /\ risk.mitigationControls = <<>>
        /\ risk.residualRisk = "Critical"

(* C20: whatever search terms and status filters were set, licenses added  *)
(* and deleted and page buttons clicked, the current page of the license   *)
(* repository is between 1 and max(1, total pages), so that the page shown *)
(* has a license whenever the filtered list has one.                       *)
C20_CurrentPageWithinPages ==
    /\ currentPageLicenses >= 1
    /\ currentPageLicenses <= (IF totalPagesLicenses > 1 THEN totalPagesLicenses ELSE 1)
    /\ filteredAndSortedLicenses # <<>> => currentLicenses # <<>>

\* the allLicenses array, as the License objects it holds
Licenses == [k \in 1..Len(allLicenses) |-> LicenseAt(allLicenses[k])]

\* handleSubmit of the license form got past its validation and called
\* onSubmit with the form's license
LicenseSaveAccepted == LicenseForm_handleSubmit /\ ~LicenseSubmitRejected

(* C21: saving an edit of the license with id X replaces exactly the       *)
(* stored license whose id is X: the other licenses, the order and the     *)
(* length of the list are unchanged; saving a license without an id adds   *)
(* exactly one new license, at the front; in both cases the policies, the  *)
(* regulatory updates and the risk assessments are unchanged.              *)
C21_SaveReplacesOrPrepends ==
    [][LicenseSaveAccepted =>
          /\ allPolicies' = allPolicies
          /\ allRegulatoryUpdates' = allRegulatoryUpdates
          /\ allRiskAssessments' = allRiskAssessments
          /\ heap' = heap
          /\ IF licenseFormState.id # <<>>
             THEN /\ Len(Licenses') = Len(Licenses)
                  /\ Cardinality({ k \in 1..Len(Licenses) :
                                     Licenses[k].id = licenseFormState.id }) = 1
                  /\ \A k \in 1..Len(Licenses) :
                         Licenses'[k] = IF Licenses[k].id = licenseFormState.id
                                        THEN licenseFormState ELSE Licenses[k]
             ELSE /\ Len(Licenses') = Len(Licenses) + 1
                  /\ Tail(Licenses') = Licenses
                  /\ Head(Licenses').id # <<>>
                  /\ \A k \in 1..Len(Licenses) : Licenses[k].id # Head(Licenses').id
                  /\ Head(Licenses') = [licenseFormState EXCEPT
                                           !.id = Head(Licenses').id,
                                           !.documents = << >>]]_vars

\* a new license is in front of the list, and License 1 was saved with
\* another status and another name
C21_Witness ==
    /\ Len(Licenses) = MockLicenses + 1
    /\ Licenses[1].id[2] >= FirstFreeId
    /\ Licenses[1].name = <<"New", 1>>
    /\ Licenses[2].id = <<"LIC", InitialNextId>>
    /\ Licenses[2].status = "Suspended"
    /\ Licenses[2].name = <<"New", 1>>

\* a step of the form that edits the item at `index`
ItemEditStep(index) ==
    \/ \E field \in {"description", "likelihood", "impact"},
          value \in Ordinals \cup Descriptions :
           handleRiskItemChange(index, field, value)
    \/ \E parts \in MitigationInputs : handleMitigationControlsChange(index, parts)

(* C22: cancelling an edit discards it: while a stored assessment is open  *)
(* for editing, a change of an item's likelihood, impact, description or   *)
(* controls in the form leaves the assessments held in the list, with      *)
(* every field of every one of their items, as they are; closing the form  *)
(* without submitting (which writes nothing) then finds them as they were  *)
(* when the form was opened.  The first edit of a session that reaches the *)
(* list, followed by Cancel, is a cancelled edit that was not discarded.   *)
C22_CancelledEditIsDiscarded ==
    [][/\ \A index \in 1..MaxItems :
              (editingRiskAssessment # Null /\ ItemEditStep(index)) =>
                  /\ allRiskAssessments' = allRiskAssessments
                  /\ \A k \in 1..Len(allRiskAssessments) :
                         ItemsOf(allRiskAssessments[k], heap')
                             = ItemsOf(allRiskAssessments[k], heap)
       /\ onClose =>
              /\ allRiskAssessments' = allRiskAssessments
              /\ heap' = heap]_vars

(* C23: in every state, every risk item has a residualRisk that is not     *)
(* higher than its inherentRisk and at most one level below it, in the     *)
(* order Low < Medium < High < Critical.                                   *)
C23_ResidualWithinOneLevel ==
    \A id \in DOMAIN heap :
        /\ LevelRank(heap[id].residualRisk) <= LevelRank(heap[id].inherentRisk)
        /\ LevelRank(heap[id].inherentRisk) <= LevelRank(heap[id].residualRisk) + 1

\* an item scored while it had controls: its residualRisk is one level
\* below its inherentRisk
C23_Witness ==
    \E risk \in FormItems :
        /\ risk.mitigationControls # <<>>
        /\ risk.likelihood = "Medium" /\ risk.impact = "Medium"
        /\ risk.inherentRisk = "High" /\ risk.residualRisk = "Medium"

(* C24: in every state reached through the controls of the form (add item, *)
(* change description, likelihood, impact, controls, remove item), each    *)
(* item's inherentRisk is the bucket of rank(likelihood) * rank(impact)    *)
(* for the likelihood and impact it has, whether or not its residualRisk   *)
(* is up to date.                                                          *)
C24_InherentRiskAlwaysCurrent ==
    \A id \in DOMAIN heap :
        LET risk == heap[id]
            score == Rank(risk.likelihood) * Rank(risk.impact)
        IN  risk.inherentRisk =
                (IF score >= 6 THEN "Critical"
                 ELSE IF score >= 4 THEN "High"
                 ELSE IF score >= 2 THEN "Medium"
                 ELSE "Low")

\* an item that got its controls after it was scored: its residualRisk is
\* stale, its inherentRisk is the one of High and Medium
C24_Witness ==
    \E risk \in FormItems :
        /\ risk.mitigationControls # <<>>
        /\ risk.likelihood = "High" /\ risk.impact = "Medium"
        /\ risk.inherentRisk = "Critical"
        /\ risk.residualRisk = "Critical"


----------------------------------------------------------------------------
\* C25: while an AI compliance check is in flight isLoading is true,
\* whatever other handlers run meanwhile, and at most one check is in
\* flight.  The code does not keep this: handleDeleteLicense sets the shared
\* flag to false while the call waits, and a second check can be started.
C25_LoadingWhileInFlight ==
    /\ aiCalls # << >> => isLoading
    /\ Len(aiCalls) <= 1

\* a step in which a call in flight settles
Settled == Len(aiCalls') = Len(aiCalls) - 1

\* C26: a started check that returns or throws leaves the view with
\* isLoading false and a non-empty report (the step in which it settles
\* does), the view is loading only while a call is in flight, and a loading
\* view whose calls settle comes to show a report and not to load.
C26_SettledCheckStopsLoading ==
    /\ [][Settled => (~isLoading' /\ complianceReport' # "")]_vars
    /\ [](isLoading => aiCalls # << >>)
    /\ (isLoading ~> (~isLoading /\ complianceReport # ""))

\* the model returned no text: the view shows the fallback and is idle
C26_Witness ==
    /\ complianceReport = NoResponse
    /\ ~isLoading
    /\ aiCalls = << >>
    /\ Len(allComplianceChecks) = 1

\* a step in which a check fails: its call throws, or the constructor of
\* the client does
CheckFailedStep ==
    \/ \E k \in 1..Len(aiCalls) : generateContentThrows(k)
    \/ handleCheckCompliance(FALSE)

\* a step in which a call returns
CheckSucceededStep == Settled /\ notification' = "success"

\* C27: a check adds one entry at the front of the history exactly when
\* its call succeeds; when it throws, the history, the record collections
\* and the id counter are unchanged, and only the report, the notification
\* and isLoading change (and the call is no longer in flight).
C27_HistoryGrowsOnSuccessOnly ==
    [][ /\ CheckSucceededStep =>
              /\ Len(allComplianceChecks') = Len(allComplianceChecks) + 1
              /\ Tail(allComplianceChecks') = allComplianceChecks
              /\ Head(allComplianceChecks').id = <<"CCR", nextId>>
        /\ ~CheckSucceededStep => allComplianceChecks' = allComplianceChecks
        /\ CheckFailedStep =>
              /\ UNCHANGED <<nextId, formVars, viewVars, licenseVars, policyVars,
                             isCheckerOpen, featureDesc, allComplianceChecks>>
              /\ complianceReport' = ErrorReport
              /\ notification' = "error"
              /\ ~isLoading'
      ]_vars

\* one check has succeeded and a later one has failed: the history has
\* the one entry
C27_Witness ==
    /\ Len(allComplianceChecks) = 1
    /\ complianceReport = ErrorReport
    /\ notification = "error"
    /\ aiCalls = << >>


\* the documents of the stored license with the id given
StoredDocuments(list, licenseId) ==
    UNION { { list[k].documents[d] : d \in 1..Len(list[k].documents) } :
              k \in { j \in 1..Len(list) : list[j].id = licenseId } }

\* C28: a document uploaded to a license from the edit form is still in
\* the stored license after the form is saved.  The code does not keep
\* this: the form saves the license as it was when the form was opened.
C28_UploadedDocumentKept ==
    [][(LicenseSaveAccepted /\ licenseFormState.id # <<>>) =>
          StoredDocuments(Licenses, licenseFormState.id)
             \subseteq StoredDocuments(Licenses', licenseFormState.id)]_vars


\* no two elements of the sequence are equal
Distinct(ids) == Cardinality({ ids[k] : k \in 1..Len(ids) }) = Len(ids)

\* the ids of the records of each collection
LicenseIds == [k \in 1..Len(allLicenses) |-> LicenseAt(allLicenses[k]).id]
PolicyIds == [k \in 1..Len(allPolicies) |-> <<"POL", allPolicies[k]>>]
AssessmentIds == [k \in 1..Len(allRiskAssessments) |-> allRiskAssessments[k].id]
ItemIds(assessment) ==
    [k \in 1..Len(assessment.identifiedRisks) |-> heap[assessment.identifiedRisks[k]].id]
DocumentIds(license) == [k \in 1..Len(license.documents) |-> license.documents[k].id]

\* the numbers in the ids of the state
NumbersInUse ==
    UNION { { allLicenses[k] : k \in 1..Len(allLicenses) },
            { allPolicies[k] : k \in 1..Len(allPolicies) },
            { allRegulatoryUpdates[k] : k \in 1..Len(allRegulatoryUpdates) },
            { allRiskAssessments[k].id[2] : k \in 1..Len(allRiskAssessments) },
            DOMAIN heap,
            UNION { { DocumentIds(LicenseAt(allLicenses[k]))[d][2] :
                        d \in 1..Len(LicenseAt(allLicenses[k]).documents) } :
                      k \in 1..Len(allLicenses) } }

\* the positions at which two lists of the same length differ, or the
\* number of records one list has more than the other
Affected(before, after) ==
    IF Len(before) = Len(after)
    THEN Cardinality({ k \in 1..Len(before) : before[k] # after[k] })
    ELSE IF Len(before) > Len(after) THEN Len(before) - Len(after)
    ELSE Len(after) - Len(before)

(* C29: the id generateId gives differs from every id given before: the    *)
(* counter only goes up and every id of the state is below it.  So no two  *)
(* licenses, no two policies, no two risk assessments, no two risk items   *)
(* of one assessment (stored or in the form) and no two documents of one   *)
(* license share an id, and a step changes, adds or removes at most one    *)
(* record of a list.                                                       *)
C29_IdsAreUnique ==
    /\ [](/\ \A n \in NumbersInUse : n < nextId
          /\ Distinct(LicenseIds)
          /\ Distinct(PolicyIds)
          /\ Distinct(AssessmentIds)
          /\ \A k \in 1..Len(allRiskAssessments) : Distinct(ItemIds(allRiskAssessments[k]))
          /\ Distinct(ItemIds(formState))
          /\ \A k \in 1..Len(allLicenses) : Distinct(DocumentIds(LicenseAt(allLicenses[k]))))
    /\ [][/\ nextId' >= nextId
          /\ (allLicenses' # allLicenses \/ licenseHeap' # licenseHeap)
                => Affected(Licenses, Licenses') <= 1
          /\ Affected(allPolicies, allPolicies') <= 1
          /\ Affected(allRiskAssessments, allRiskAssessments') <= 1]_vars

\* a policy and a license were deleted, and ids were given to a new policy
\* and to a new license, which are in front of their lists
C29_Witness ==
    /\ nextId >= FirstFreeId + 2
    /\ Len(allPolicies) = MockPolicies
    /\ Head(allPolicies) >= FirstFreeId
    /\ Len(allLicenses) = MockLicenses
    /\ Head(allLicenses) >= FirstFreeId
    /\ Head(allLicenses) # Head(allPolicies)


\* handleSubmit is called with an empty scope or with no risk item
IncompleteSubmit ==
    handleSubmit /\ (formState.scope = "" \/ formState.identifiedRisks = << >>)

(* C30: a submit of the risk-assessment form with an empty scope or with   *)
(* no risk item gives an error notification and does not call onSubmit     *)
(* (the list, the form and the open modal stay as they are), and every     *)
(* assessment of the list has a non-empty scope and at least one item.     *)
C30_IncompleteIsNeverStored ==
    /\ [][IncompleteSubmit =>
             /\ notification' = "error"
             /\ UNCHANGED <<allRiskAssessments, formState, editingRiskAssessment,
                            isRiskAssessmentModalOpen, nextId, isLoading>>]_vars
    /\ [](\A k \in 1..Len(allRiskAssessments) :
             /\ allRiskAssessments[k].scope # ""
             /\ Len(allRiskAssessments[k].identifiedRisks) >= 1)

\* an assessment is stored, and a submit of the form with an item and an
\* empty scope was rejected
C30_Witness ==
    /\ Len(allRiskAssessments) >= 1
    /\ notification = "error"
    /\ isRiskAssessmentModalOpen
    /\ formState.scope = ""
    /\ Len(formState.identifiedRisks) >= 1

============================================================================
